---- MODULE Spec2Model ----
(***************************************************************************)
(* prybar.dynamic_entrypoint: a generator wrapped by                       *)
(* contextlib.contextmanager that registers a pkg_resources entry point    *)
(* in a synthetic Distribution of the working set and removes it again     *)
(* after the yield.                                                        *)
(*                                                                         *)
(* Python values are modelled as follows.  A dict is an ordered dict: a    *)
(* sequence of [k, v] pairs in insertion order.  A string that the code    *)
(* only compares is a TLA+ string; a scope string, which pkg_resources     *)
(* rewrites, is a sequence of tokens (words and separator characters).     *)
(* Python's None is the string None.                                       *)
(***************************************************************************)
EXTENDS Integers, Sequences, FiniteSets, TLC

\* Number of context-manager objects a run may construct.
NumInst == 2

Inst == 1..NumInst

None == "<None>"

\* prybar's own __file__, the location of every Distribution it creates.
OWN == "prybar.py"

\* Location of the distributions installed before prybar is used.
SITE == "site-packages"

----------------------------------------------------------------------------
(* Ordered dicts *)

Has(d, k) == \E j \in 1..Len(d) : d[j].k = k

Get(d, k) == d[CHOOSE j \in 1..Len(d) : d[j].k = k].v

Put(d, k, v) ==
    IF Has(d, k)
    THEN [j \in 1..Len(d) |-> IF d[j].k = k THEN [k |-> k, v |-> v] ELSE d[j]]
    ELSE Append(d, [k |-> k, v |-> v])

Del(d, k) == SelectSeq(d, LAMBDA e : e.k # k)

SeqHas(s, x) == \E j \in 1..Len(s) : s[j] = x

SeqRemove(s, x) ==
    LET j == CHOOSE n \in 1..Len(s) : s[n] = x /\ \A m \in 1..(n-1) : s[m] # x
    IN  SubSeq(s, 1, j-1) \o SubSeq(s, j+1, Len(s))

----------------------------------------------------------------------------
(* pkg_resources: Distribution.key = safe_name(project_name).lower() *)

\* The characters that are neither alphanumeric nor "." among the tokens used.
Separators == {"_", "-", " "}

Lower(tok) ==
    CASE tok = "Foo" -> "foo"
      [] tok = "BAR" -> "bar"
      [] OTHER -> tok

\* re.sub('[^A-Za-z0-9.]+', '-', name): every run of separators becomes one "-".
RECURSIVE safe_name(_)
safe_name(s) ==
    IF s = <<>> THEN <<>>
    ELSE IF Head(s) \in Separators
         THEN IF Len(s) > 1 /\ s[2] \in Separators
              THEN safe_name(Tail(s))
              ELSE <<"-">> \o safe_name(Tail(s))
         ELSE <<Head(s)>> \o safe_name(Tail(s))

DistKey(scope) == [j \in 1..Len(safe_name(scope)) |-> Lower(safe_name(scope)[j])]

----------------------------------------------------------------------------
(* Python values used as arguments *)

NoScope == <<>>

NoDist == <<>>

NoAttr == [t |-> "None", v |-> <<>>]

StrAttr(x) == [t |-> "str", v |-> <<x>>]

TupleAttr(xs) == [t |-> "tuple", v |-> xs]

\* A pkg_resources.EntryPoint object.
EntryPoint(name, module_name, attrs, dist) ==
    [name |-> name, module_name |-> module_name, attrs |-> attrs, dist |-> dist]

NoObject == EntryPoint(None, None, <<>>, NoDist)

\* The module that defines the functions ep_1, ep_2, ep_3 (test_prybar.py).
TestModule == "test_prybar"

\* The arguments of one call dynamic_entrypoint(group, entrypoint, name=,
\* module=, attribute=, scope=).  kind is the type of the entrypoint argument;
\* obj holds __name__ and __module__ of a callable, or the fields of a
\* pre-built EntryPoint; text holds a declaration string as tokens.
Args(group, kind, obj, text, name, module, attribute, scope) ==
    [group |-> group, kind |-> kind, obj |-> obj, text |-> text, name |-> name,
     module |-> module, attribute |-> attribute, scope |-> scope]

FromCallable(group, fn, name, scope) ==
    Args(group, "callable", EntryPoint(fn, TestModule, <<>>, NoDist), <<>>,
         name, None, NoAttr, scope)

FromText(group, name, attr, scope) ==
    Args(group, "str", NoObject, <<name, "=", TestModule, ":", attr>>,
         None, None, NoAttr, scope)

FromObject(group, name, attr, scope) ==
    Args(group, "EntryPoint", EntryPoint(name, TestModule, <<attr>>, NoDist),
         <<>>, None, None, NoAttr, scope)

FromFields(group, name, attribute, scope) ==
    Args(group, "none", NoObject, <<>>, name, TestModule, attribute, scope)

StrGroup(g) == [t |-> "str", v |-> g]

\* Raw scope strings: "foo_bar" and "foo-bar" have the same key; "pytest" is
\* the key of a distribution installed at SITE.
ScopeFooU == <<"foo", "_", "bar">>
ScopeFooH == <<"foo", "-", "bar">>
ScopePytest == <<"pytest">>

OtherScopes == {ScopeFooU, ScopeFooH, ScopePytest}

G1 == StrGroup("g1")
G2 == StrGroup("g2")

\* The calls a run may make.  In the default scope: every input shape for
\* ep_1 in g1, a callable, a declaration string and a pre-built object for
\* ep_2 in g1, a callable for ep_1 in g2.  In each other scope: a callable
\* for ep_1 in g1.
Calls ==
    { FromCallable(G1, "ep_1", None, NoScope),
      FromText(G1, "ep_1", "ep_1", NoScope),
      FromObject(G1, "ep_1", "ep_1", NoScope),
      FromFields(G1, "ep_1", NoAttr, NoScope),
      FromCallable(G1, "ep_2", None, NoScope),
      FromText(G1, "ep_2", "ep_2", NoScope),
      FromObject(G1, "ep_2", "ep_2", NoScope),
      FromCallable(G2, "ep_1", None, NoScope) }
    \cup { FromCallable(G1, "ep_1", None, s) : s \in OtherScopes }

----------------------------------------------------------------------------
(* Exceptions *)

NoError == [type |-> "ok", msg |-> "", shown |-> <<>>]

\* An exception of the given Python type; shown lists the values the message
\* interpolates.
Raise(type, msg, shown) == [type |-> type, msg |-> msg, shown |-> shown]

\* format_scope(scope, dist): the raw scope, and the key when it differs.
format_scope(scope, key) ==
    IF scope # key THEN <<scope, key>> ELSE <<scope>>

----------------------------------------------------------------------------
(* The body of dynamic_entrypoint up to the yield *)

\* pkg_resources.EntryPoint.parse("name = module:attr.attr")
RECURSIVE SplitDots(_)
SplitDots(toks) ==
    IF toks = <<>> THEN <<>>
    ELSE IF Head(toks) = "." THEN SplitDots(Tail(toks))
    ELSE <<Head(toks)>> \o SplitDots(Tail(toks))

parse(text) ==
    EntryPoint(text[1], text[3],
               IF Len(text) > 4 THEN SplitDots(SubSeq(text, 5, Len(text)))
               ELSE <<>>,
               NoDist)

Normalised(err, name, entrypoint) ==
    [err |-> err, name |-> name, entrypoint |-> entrypoint]

\* Lines 41-78: the checks of the arguments and the EntryPoint they describe.
\* epdist is the dist attribute of the EntryPoint object passed in, when one
\* was.  The result's name is the local variable name after line 78.
NormaliseArgs(a, epdist) ==
    IF a.group.t # "str"
    THEN Normalised(Raise("ValueError", "group must be a string", <<>>),
                    None, NoObject)
    ELSE IF a.kind # "none"
    THEN IF a.kind = "callable"
         THEN IF ~(a.module = None /\ a.attribute.t = "None")
              THEN Normalised(
                     Raise("ValueError",
                           "can't specify module_name and attribute alongside a callable entrypoint",
                           <<>>),
                     None, NoObject)
              ELSE LET name == IF a.name = None THEN a.obj.name ELSE a.name
                   IN  Normalised(NoError, name,
                                  EntryPoint(name, a.obj.module_name,
                                             <<a.obj.name>>, NoDist))
         ELSE IF a.kind \in {"str", "EntryPoint"}
         THEN LET entrypoint ==
                      IF a.kind = "str" THEN parse(a.text)
                      ELSE [a.obj EXCEPT !.dist = epdist]
              IN  IF entrypoint.dist # NoDist
                  THEN Normalised(
                         Raise("ValueError",
                               "can't specify a pkg_resources.Entrypoint instance with a dist already attached",
                               <<>>),
                         None, NoObject)
                  ELSE IF ~(a.name = None /\ a.module = None
                            /\ a.attribute.t = "None")
                  THEN Normalised(
                         Raise("ValueError",
                               "can't specify name, module_name or attribute when entrypoint is a pkg_resources.Entrypoint",
                               <<>>),
                         None, NoObject)
                  ELSE Normalised(NoError, a.name, entrypoint)
         ELSE Normalised(Raise("ValueError", "unsupported entrypoint", <<>>),
                         None, NoObject)
    ELSE IF a.name = None \/ a.module = None
    THEN Normalised(
           Raise("ValueError",
                 "name and module_name must be specified when entrypoint is not specified",
                 <<>>),
           None, NoObject)
    ELSE LET attribute ==
                 IF a.attribute.t = "None" THEN <<a.name>> ELSE a.attribute.v
         IN  Normalised(NoError, a.name,
                        EntryPoint(a.name, a.module, attribute, NoDist))

\* Line 83: the default scope f'{__name__}.dynamic'.
DefaultScope == <<"prybar", ".", "dynamic">>

ScopeOf(a) == IF a.scope = NoScope THEN DefaultScope ELSE a.scope

\* pkg_resources.Distribution(location=, project_name=) with no metadata: its
\* entry map starts empty.
Distribution(location, key) ==
    [location |-> location, key |-> key, ep_map |-> <<>>]

\* WorkingSetAdd replacing by_key by a dict that holds the new dist alone.
WorkingSetAddAlone(ws, dist) ==
    [by_key |-> <<[k |-> dist.key, v |-> dist]>>,
     entry_keys |-> Put(ws.entry_keys, dist.location, <<dist.key>>),
     entries |-> IF SeqHas(ws.entries, dist.location) THEN ws.entries
                 ELSE Append(ws.entries, dist.location)]

\* WorkingSet.add(dist) for a dist whose key is not in by_key: the location
\* joins entries if it is new, and the key joins the location's entry_keys.
WorkingSetAdd(ws, dist) ==
    LET entries == IF SeqHas(ws.entries, dist.location) THEN ws.entries
                   ELSE Append(ws.entries, dist.location)
        keys == IF Has(ws.entry_keys, dist.location)
                THEN Get(ws.entry_keys, dist.location) ELSE <<>>
    IN  [by_key |-> Put(ws.by_key, dist.key, dist),
         entry_keys |-> Put(ws.entry_keys, dist.location,
                            IF SeqHas(keys, dist.key) THEN keys
                            ELSE Append(keys, dist.key)),
         entries |-> entries]

\* Collides without the check.
CollidesNever(ws, key) == FALSE

\* Collides without the comparison of locations.
CollidesAnyLocation(ws, key) == Has(ws.by_key, key)

\* Lines 93-94: the key names an identity that is not at prybar's location.
Collides(ws, key) == Has(ws.by_key, key) /\ Get(ws.by_key, key).location # OWN

\* Lines 107-114: the duplicate check and the insertion under the local name.
InsertEntry(group_entries, name, entrypoint) ==
    Put(group_entries, name, entrypoint)

IsRegistered(group_entries, name) == Has(group_entries, name)

\* The generator's frame at the yield: the locals the tidy-up reads.
Frame(name, group, key) == [name |-> name, group |-> group, key |-> key]

NoFrame == Frame(None, None, NoDist)

Outcome(err, ws, epdist, frame) ==
    [err |-> err, ws |-> ws, epdist |-> epdist, frame |-> frame]

\* Lines 41-117: the generator from its start to the yield, or to the
\* exception it raises.
RunToYield(a, epdist, ws) ==
    LET n == NormaliseArgs(a, epdist)
        scope == ScopeOf(a)
        key == DistKey(scope)
    IN  IF n.err # NoError THEN Outcome(n.err, ws, epdist, NoFrame)
        ELSE IF Collides(ws, key)
        THEN Outcome(Raise("ValueError", "scope already exists in working set",
                           format_scope(scope, key)
                             \o <<<<Get(ws.by_key, key).location>>>>),
                     ws, epdist, NoFrame)
        ELSE LET ws1 == IF ~Has(ws.by_key, key)
                        THEN WorkingSetAdd(ws, Distribution(OWN, key))
                        ELSE ws
                 dist == Get(ws1.by_key, key)
                 group == a.group.v
                 \* setdefault(group, {})
                 ep_map == IF Has(dist.ep_map, group) THEN dist.ep_map
                           ELSE Put(dist.ep_map, group, <<>>)
                 group_entries == Get(ep_map, group)
             IN  IF IsRegistered(group_entries, n.name)
                 THEN Outcome(Raise("ValueError", "is already registered under",
                                    <<<<n.name>>, <<group>>>>
                                      \o format_scope(scope, key)),
                              [ws1 EXCEPT !.by_key =
                                 Put(ws1.by_key, key,
                                     [dist EXCEPT !.ep_map = ep_map])],
                              epdist, NoFrame)
                 ELSE LET entry == [n.entrypoint EXCEPT !.dist = key]
                          table == InsertEntry(group_entries, n.name, entry)
                      IN  Outcome(NoError,
                                  [ws1 EXCEPT !.by_key =
                                     Put(ws1.by_key, key,
                                         [dist EXCEPT !.ep_map =
                                            Put(ep_map, group, table)])],
                                  IF a.kind = "EntryPoint" THEN key ELSE epdist,
                                  Frame(n.name, group, key))

\* TidyUp without lines 121-122: an emptied group stays in the entry map.
TidyUpKeepingGroup(f, ws) ==
    LET dist == Get(ws.by_key, f.key)
        ep_map == Put(dist.ep_map, f.group,
                      Del(Get(dist.ep_map, f.group), f.name))
    IN  [ws EXCEPT !.by_key =
           Put(ws.by_key, f.key, [dist EXCEPT !.ep_map = ep_map])]

\* Lines 119-130: the tidy-up after the yield.
TidyUp(f, ws) ==
    LET dist == Get(ws.by_key, f.key)
        group_entries == Del(Get(dist.ep_map, f.group), f.name)
        ep_map == IF Len(group_entries) = 0 THEN Del(dist.ep_map, f.group)
                  ELSE Put(dist.ep_map, f.group, group_entries)
    IN  IF Len(ep_map) = 0
        THEN LET keys == SeqRemove(Get(ws.entry_keys, OWN), f.key)
             IN  IF keys = <<>>
                 THEN [by_key |-> Del(ws.by_key, f.key),
                       entry_keys |-> Del(ws.entry_keys, OWN),
                       entries |-> SeqRemove(ws.entries, OWN)]
                 ELSE [by_key |-> Del(ws.by_key, f.key),
                       entry_keys |-> Put(ws.entry_keys, OWN, keys),
                       entries |-> ws.entries]
        ELSE [ws EXCEPT !.by_key =
                Put(ws.by_key, f.key, [dist EXCEPT !.ep_map = ep_map])]

----------------------------------------------------------------------------
(* State *)

VARIABLES
    working_set,   \* pkg_resources.working_set: by_key, entry_keys, entries
    cm,            \* the objects returned by calls of dynamic_entrypoint
    last           \* the most recent call and the exception it raised

vars == <<working_set, cm, last>>

NoArgs == Args(StrGroup(None), "none", NoObject, <<>>, None, None, NoAttr, NoScope)

\* A _GeneratorContextManager: gen is the state of its generator, hasargs
\* tells whether it still holds func, args and kwds, epdist is the dist
\* attribute of the EntryPoint object among its arguments, frame the locals
\* of the generator suspended at the yield.  inner and innerframe are the
\* generator of the context manager recreated for a running call of a
\* function the object decorates.
Manager(gen, args, hasargs, epdist, frame, inner, innerframe) ==
    [gen |-> gen, args |-> args, hasargs |-> hasargs, epdist |-> epdist,
     frame |-> frame, inner |-> inner, innerframe |-> innerframe]

Absent == Manager("absent", NoArgs, FALSE, NoDist, NoFrame, "none", NoFrame)

Call(op, inst, exc, err) == [op |-> op, inst |-> inst, exc |-> exc, err |-> err]

\* The exception raised by the body of a with block or of a decorated function.
BodyError == Raise("BodyError", "raised by the body", <<>>)

PytestKey == <<"pytest">>

\* A distribution installed before prybar is used, with its own entry points.
PytestDist ==
    [location |-> SITE, key |-> PytestKey,
     ep_map |-> << [k |-> "console_scripts",
                    v |-> << [k |-> "pytest",
                              v |-> EntryPoint("pytest", "pytest",
                                               <<"console_main">>, PytestKey)] >>] >>]

InitialWorkingSet ==
    [by_key |-> << [k |-> PytestKey, v |-> PytestDist] >>,
     entry_keys |-> << [k |-> SITE, v |-> <<PytestKey>>] >>,
     entries |-> <<SITE>>]

Init ==
    /\ working_set = InitialWorkingSet
    /\ cm = [i \in Inst |-> Absent]
    /\ last = Call("none", 0, FALSE, NoError)

----------------------------------------------------------------------------
(* contextlib.contextmanager *)

\* dynamic_entrypoint(...): _GeneratorContextManager.__init__ creates the
\* generator and keeps the arguments, an EntryPoint object among them with
\* the dist it has; no line of the generator runs.  Objects are numbered in
\* the order of their construction.
Construct(i, a) ==
    /\ cm[i].gen = "absent"
    /\ \A j \in 1..(i-1) : cm[j].gen # "absent"
    /\ cm' = [cm EXCEPT ![i] =
                Manager("created", a, TRUE, a.obj.dist, NoFrame, "none", NoFrame)]
    /\ last' = Call("construct", i, FALSE, NoError)
    /\ UNCHANGED working_set

\* next(self.gen) on a generator that has not started.
StartGenerator(i, op, onyield) ==
    \E o \in {RunToYield(cm[i].args, cm[i].epdist, working_set)} :
        /\ working_set' = o.ws
        /\ cm' = [cm EXCEPT ![i].gen = IF o.err = NoError THEN "suspended"
                                       ELSE "closed",
                            ![i].hasargs = IF op = "__enter__" THEN FALSE ELSE @,
                            ![i].epdist = o.epdist,
                            ![i].frame = o.frame]
        /\ last' = Call(op, i, FALSE, IF o.err = NoError THEN onyield ELSE o.err)

DidntYield == Raise("RuntimeError", "generator didn't yield", <<>>)

DidntStop == Raise("RuntimeError", "generator didn't stop", <<>>)

NoAttribute(attr) == Raise("AttributeError", attr, <<>>)

\* _GeneratorContextManager.__enter__: del self.args, self.kwds, self.func,
\* then next(self.gen).
Enter(i) ==
    /\ cm[i].gen # "absent"
    /\ IF ~cm[i].hasargs
       THEN /\ last' = Call("__enter__", i, FALSE, NoAttribute("args"))
            /\ UNCHANGED <<working_set, cm>>
       ELSE CASE cm[i].gen = "created" ->
                   StartGenerator(i, "__enter__", NoError)
              [] cm[i].gen = "suspended" ->
                   /\ working_set' = TidyUp(cm[i].frame, working_set)
                   /\ cm' = [cm EXCEPT ![i].gen = "closed",
                                       ![i].hasargs = FALSE,
                                       ![i].frame = NoFrame]
                   /\ last' = Call("__enter__", i, FALSE, DidntYield)
              [] cm[i].gen = "closed" ->
                   /\ cm' = [cm EXCEPT ![i].hasargs = FALSE]
                   /\ last' = Call("__enter__", i, FALSE, DidntYield)
                   /\ UNCHANGED working_set

\* _GeneratorContextManager.__exit__(typ, value, traceback).  exc tells whether
\* an exception is passed in: then it is thrown into the generator, which has
\* no handler around its yield, and propagates; otherwise next(self.gen).
Exit(i, exc) ==
    /\ cm[i].gen # "absent"
    /\ IF exc
       THEN /\ cm' = [cm EXCEPT ![i].gen = "closed", ![i].frame = NoFrame]
            /\ last' = Call("__exit__", i, TRUE, BodyError)
            /\ UNCHANGED working_set
       ELSE CASE cm[i].gen = "created" ->
                   StartGenerator(i, "__exit__", DidntStop)
              [] cm[i].gen = "suspended" ->
                   /\ working_set' = TidyUp(cm[i].frame, working_set)
                   /\ cm' = [cm EXCEPT ![i].gen = "closed",
                                       ![i].frame = NoFrame]
                   /\ last' = Call("__exit__", i, FALSE, NoError)
              [] cm[i].gen = "closed" ->
                   /\ last' = Call("__exit__", i, FALSE, NoError)
                   /\ UNCHANGED <<working_set, cm>>

\* The object has no attribute start.
Start(i) ==
    /\ cm[i].gen # "absent"
    /\ last' = Call("start", i, FALSE, NoAttribute("start"))
    /\ UNCHANGED <<working_set, cm>>

\* The object has no attribute stop.
Stop(i) ==
    /\ cm[i].gen # "absent"
    /\ last' = Call("stop", i, FALSE, NoAttribute("stop"))
    /\ UNCHANGED <<working_set, cm>>

\* ContextDecorator.__call__(func): returns the wrapper, runs nothing.
Decorate(i) ==
    /\ cm[i].gen # "absent"
    /\ last' = Call("decorate", i, FALSE, NoError)
    /\ UNCHANGED <<working_set, cm>>

\* A call of the wrapper: with self._recreate_cm(): builds a new generator
\* from func, args and kwds and enters it.
CallWrapped(i) ==
    /\ cm[i].gen # "absent"
    /\ IF ~cm[i].hasargs
       THEN /\ last' = Call("call", i, FALSE, NoAttribute("func"))
            /\ UNCHANGED <<working_set, cm>>
       ELSE \E o \in {RunToYield(cm[i].args, cm[i].epdist, working_set)} :
                /\ working_set' = o.ws
                /\ cm' = [cm EXCEPT
                            ![i].epdist = o.epdist,
                            ![i].inner = IF o.err = NoError THEN "suspended"
                                         ELSE @,
                            ![i].innerframe = IF o.err = NoError THEN o.frame
                                              ELSE @]
                /\ last' = Call("call", i, FALSE, o.err)

\* The wrapped function returns, or raises when exc: __exit__ of the
\* recreated context manager.
ReturnWrapped(i, exc) ==
    /\ cm[i].inner = "suspended"
    /\ working_set' = IF exc THEN working_set
                      ELSE TidyUp(cm[i].innerframe, working_set)
    /\ cm' = [cm EXCEPT ![i].inner = "none", ![i].innerframe = NoFrame]
    /\ last' = Call("return", i, exc, IF exc THEN BodyError ELSE NoError)

Next ==
    \E i \in Inst :
        \/ \E a \in Calls : Construct(i, a)
        \/ Enter(i)
        \/ \E exc \in BOOLEAN : Exit(i, exc)
        \/ Start(i)
        \/ Stop(i)
        \/ Decorate(i)
        \/ CallWrapped(i)
        \/ \E exc \in BOOLEAN : ReturnWrapped(i, exc)

Spec == Init /\ [][Next]_vars

----------------------------------------------------------------------------
(* Three nested with blocks in one group and scope *)

NestInst == {1, 2, 3}

NestName(i) == CASE i = 1 -> "ep_1" [] i = 2 -> "ep_2" [] OTHER -> "ep_3"

\* The calls for the entry point named NestName(i), one per input shape.
NestCalls(i) ==
    { FromCallable(G1, NestName(i), None, NoScope),
      FromText(G1, NestName(i), NestName(i), NoScope),
      FromObject(G1, NestName(i), NestName(i), NoScope),
      FromFields(G1, NestName(i), NoAttr, NoScope) }

\* Three objects have been constructed, one per name.
InitNest ==
    /\ working_set = InitialWorkingSet
    /\ cm \in {f \in [NestInst -> {Manager("created", a, TRUE, NoDist, NoFrame,
                                              "none", NoFrame) :
                                        a \in UNION {NestCalls(i) : i \in NestInst}}] :
                  \A i \in NestInst : f[i].args \in NestCalls(i)}
    /\ last = Call("none", 0, FALSE, NoError)

\* with cm: ... entered once per object and left by a normal return, in any
\* order.
NextNest ==
    \E i \in NestInst :
        \/ cm[i].gen = "created" /\ Enter(i)
        \/ cm[i].gen = "suspended" /\ Exit(i, FALSE)

SpecNest == InitNest /\ [][NextNest]_vars

----------------------------------------------------------------------------
(* What a caller observes of the registry *)

\* The entry point a call describes, and the identity and group it goes to.
EntryOf(a) == NormaliseArgs(a, NoDist).entrypoint

KeyOf(a) == DistKey(ScopeOf(a))

GroupOf(a) == a.group.v

ValidArgs(i) == NormaliseArgs(cm[i].args, cm[i].epdist).err = NoError

\* dist.get_entry_map(group) of the identity key, empty when either is absent.
Table(ws, key, group) ==
    IF Has(ws.by_key, key) /\ Has(Get(ws.by_key, key).ep_map, group)
    THEN Get(Get(ws.by_key, key).ep_map, group)
    ELSE <<>>

\* The entries of (key, group) whose name is name, as iter_entry_points
\* selects them.
Named(ws, key, group, name) ==
    {j \in 1..Len(Table(ws, key, group)) : Table(ws, key, group)[j].v.name = name}

CountFor(ws, a) ==
    Cardinality(Named(ws, KeyOf(a), GroupOf(a), EntryOf(a).name))

\* The key names an identity of the registry that prybar did not create.
ForeignIdentity(ws, key) ==
    \E j \in 1..Len(ws.by_key) :
        ws.by_key[j].k = key /\ ws.by_key[j].v.location # OWN

OwnKeys(ws) ==
    {ws.by_key[j].k : j \in {n \in 1..Len(ws.by_key) : ws.by_key[n].v.location = OWN}}

\* The object is inside a with block, or inside a call of a function it
\* decorates.
InBlock(i) == cm[i].gen = "suspended" /\ ~cm[i].hasargs

InCall(i) == cm[i].inner = "suspended"

\* __enter__ of a new object, and __exit__ at the end of its with block.
EntersBlock(i) == cm[i].gen = "created" /\ cm[i].hasargs /\ Enter(i)

LeavesBlock(i, exc) == InBlock(i) /\ Exit(i, exc)

----------------------------------------------------------------------------
(* Claims *)

\* C1: while an instance is active the registry holds exactly one entry for
\* its (scope, group, name), and right after its deactivation it holds none.
C1_ExactlyOneEntry ==
    [][\A i \in Inst :
         /\ (InBlock(i) \/ InCall(i))' =>
                CountFor(working_set', cm'[i].args) = 1
         /\ (LeavesBlock(i, FALSE) \/ ReturnWrapped(i, FALSE)) =>
                CountFor(working_set', cm[i].args) = 0]_vars

\* The frame's entry is the only one of its group, or of its identity.
LastOfGroup(f, ws) == Len(Table(ws, f.key, f.group)) = 1

LastOfScope(f, ws) ==
    LastOfGroup(f, ws) /\ Len(Get(ws.by_key, f.key).ep_map) = 1

\* C2: a deactivation removes the entry; it removes the group key when the
\* group is emptied and the identity when the scope is emptied; prybar's
\* location stays in entry_keys and entries exactly while an identity of
\* some scope remains, and entry_keys lists exactly those identities.
NoResidueAfter(f, ws, ws2) ==
    /\ ~Has(Table(ws2, f.key, f.group), f.name)
    /\ LastOfGroup(f, ws) =>
           ~(Has(ws2.by_key, f.key) /\ Has(Get(ws2.by_key, f.key).ep_map, f.group))
    /\ LastOfScope(f, ws) <=> ~Has(ws2.by_key, f.key)
    /\ Has(ws2.entry_keys, OWN) <=> OwnKeys(ws2) # {}
    /\ SeqHas(ws2.entries, OWN) <=> OwnKeys(ws2) # {}
    /\ Has(ws2.entry_keys, OWN) =>
           /\ {Get(ws2.entry_keys, OWN)[j] :
                 j \in 1..Len(Get(ws2.entry_keys, OWN))} = OwnKeys(ws2)
           /\ Len(Get(ws2.entry_keys, OWN)) = Cardinality(OwnKeys(ws2))

C2_NoResidue ==
    [][\A i \in Inst :
         /\ LeavesBlock(i, FALSE) =>
                NoResidueAfter(cm[i].frame, working_set, working_set')
         /\ ReturnWrapped(i, FALSE) =>
                NoResidueAfter(cm[i].innerframe, working_set, working_set')]_vars

\* A deactivation emptied one scope while an identity of another scope
\* remains, so prybar's location is still indexed.
C2_Witness ==
    /\ last.op = "__exit__" /\ last.err = NoError /\ ~last.exc
    /\ cm[last.inst].gen = "closed"
    /\ ~Has(working_set.by_key, KeyOf(cm[last.inst].args))
    /\ OwnKeys(working_set) # {}
    /\ Has(working_set.entry_keys, OWN)

\* C3: when the body of a with block raises, the entry is removed and no
\* residue is left, as after a normal return.
C3_CleanupOnError ==
    [][\A i \in Inst :
         LeavesBlock(i, TRUE) =>
             NoResidueAfter(cm[i].frame, working_set, working_set')]_vars

\* Some other object is active with the same identity, group and entry point
\* name as the call of object i.
SameNameActive(i) ==
    \E j \in Inst \ {i} :
        /\ InBlock(j) \/ InCall(j)
        /\ KeyOf(cm[j].args) = KeyOf(cm[i].args)
        /\ GroupOf(cm[j].args) = GroupOf(cm[i].args)
        /\ EntryOf(cm[j].args).name = EntryOf(cm[i].args).name

IsDuplicateNameError(err) ==
    err.type = "ValueError" /\ err.msg = "is already registered under"

\* C4: activating an entry point whose group and name equal those of an entry
\* active in the same scope raises the duplicate-name error, whatever the
\* input shapes, and leaves the registry as it was.
C4_DuplicateRejected ==
    [][\A i \in Inst :
         (EntersBlock(i) /\ ValidArgs(i) /\ SameNameActive(i)) =>
             /\ IsDuplicateNameError(last'.err)
             /\ working_set' = working_set]_vars

\* Another object is active with the same group and entry point name as the
\* call of object i, under an identity with another key.
OtherScopeActive(i, j) ==
    /\ j # i
    /\ InBlock(j) \/ InCall(j)
    /\ KeyOf(cm[j].args) # KeyOf(cm[i].args)
    /\ GroupOf(cm[j].args) = GroupOf(cm[i].args)
    /\ EntryOf(cm[j].args).name = EntryOf(cm[i].args).name

\* The entries of the call's (scope, group, name) all carry the scope's key.
UnderOwnIdentity(ws, a) ==
    \A n \in Named(ws, KeyOf(a), GroupOf(a), EntryOf(a).name) :
        Table(ws, KeyOf(a), GroupOf(a))[n].v.dist = KeyOf(a)

\* C5: with an entry active in one scope, an entry point of the same name and
\* group in a scope with another key, whose own group holds nothing yet, is
\* activated without error; its entry is then the one entry of its (scope,
\* group, name), the identity of the other scope is as before and still holds
\* the other entry, and each entry carries the key of its own scope.
C5_DifferentScopes ==
    [][\A i, j \in Inst :
         (/\ EntersBlock(i) /\ ValidArgs(i)
          /\ OtherScopeActive(i, j)
          /\ ~ForeignIdentity(working_set, KeyOf(cm[i].args))
          /\ Table(working_set, KeyOf(cm[i].args), GroupOf(cm[i].args)) = <<>>) =>
             /\ last'.err = NoError
             /\ InBlock(i)'
             /\ CountFor(working_set', cm[i].args) = 1
             /\ CountFor(working_set', cm[j].args) >= 1
             /\ Get(working_set'.by_key, KeyOf(cm[j].args)) =
                  Get(working_set.by_key, KeyOf(cm[j].args))
             /\ UnderOwnIdentity(working_set', cm[i].args)
             /\ UnderOwnIdentity(working_set', cm[j].args)]_vars

\* Two objects are inside their blocks with the same name and group under
\* different keys.
C5_Witness ==
    /\ last.op = "__enter__" /\ last.err = NoError
    /\ \E j \in Inst :
         /\ InBlock(last.inst) /\ InBlock(j)
         /\ OtherScopeActive(last.inst, j)

IsCollisionError(err) ==
    err.type = "ValueError" /\ err.msg = "scope already exists in working set"

\* C6: activating with a scope whose key names an identity that is not at
\* prybar's location raises the collision error, the body is not entered,
\* and the registry, that identity included, is as before.
C6_CollisionRejected ==
    [][\A i \in Inst :
         (/\ EntersBlock(i) \/ (cm[i].hasargs /\ CallWrapped(i))
          /\ ValidArgs(i)
          /\ ForeignIdentity(working_set, KeyOf(cm[i].args))) =>
             /\ IsCollisionError(last'.err)
             /\ ~InBlock(i)' /\ ~InCall(i)'
             /\ working_set' = working_set
             /\ Get(working_set'.by_key, PytestKey) = PytestDist]_vars

\* An activation under the scope "pytest" has just failed.
C6_Witness ==
    /\ last.op = "__enter__" /\ IsCollisionError(last.err)
    /\ cm[last.inst].args.scope = ScopePytest
    /\ cm[last.inst].gen = "closed"

\* The error the tests expect of an __exit__ without __enter__.
ExitWithoutEnter ==
    Raise("RuntimeError", "__exit__() called more than __enter__()", <<>>)

\* C8: __exit__ on an object that was never entered raises the usage error
\* "__exit__() called more than __enter__()".
C8_ExitWithoutEnter ==
    [][\A i \in Inst :
         (cm[i].gen = "created" /\ ValidArgs(i) /\ Exit(i, FALSE)) =>
             last'.err = ExitWithoutEnter]_vars

\* The usage errors of the tests are RuntimeErrors.
IsUsageError(err) == err.type = "RuntimeError"

\* The most recent call started object i.
ViaStart(i) == last = Call("start", i, FALSE, NoError)

\* C9: while an object is active via __enter__ (block or decorated call),
\* start() and stop() raise a usage error; while it is active via start(),
\* __enter__ and a call of a function it decorates raise a usage error and
\* do not enter the body.
C9_ProtocolsExclusive ==
    [][\A i \in Inst :
         /\ ((InBlock(i) \/ InCall(i)) /\ (Start(i) \/ Stop(i))) =>
                IsUsageError(last'.err)
         /\ (ViaStart(i) /\ (Enter(i) \/ CallWrapped(i))) =>
                /\ IsUsageError(last'.err)
                /\ ~InBlock(i)' /\ ~InCall(i)']_vars

\* Object i has only been used through start() and stop().
OnlyManual(i) == cm[i].gen = "created" /\ cm[i].hasargs /\ ~InCall(i)

\* C10: on an object used through start() and stop() alone, neither call
\* raises, and the registry holds the object's entry exactly when the most
\* recent call was start().
C10_StartStopIdempotent ==
    \A i \in Inst :
        (OnlyManual(i) /\ last.inst = i /\ last.op \in {"start", "stop"}) =>
            /\ last.err = NoError
            /\ last.op = "start" => CountFor(working_set, cm[i].args) = 1
            /\ last.op = "stop" => CountFor(working_set, cm[i].args) = 0

\* The names of the entries of (key, group), in the order iter_entry_points
\* lists them.
Listing(ws, key, group) ==
    [j \in 1..Len(Table(ws, key, group)) |-> Table(ws, key, group)[j].v.name]

NestKey == DistKey(DefaultScope)

\* C7: each of three nested activations with distinct names in one group and
\* scope succeeds and is listed after the ones activated before it; each
\* deactivation, in any order, removes its own entry alone; after the last one
\* the group and the identity of the scope are gone.
C7_NestedThree ==
    [][\A i \in NestInst :
         /\ (cm[i].gen = "created" /\ Enter(i)) =>
                /\ last'.err = NoError
                /\ InBlock(i)'
                /\ Listing(working_set', NestKey, "g1") =
                     Append(Listing(working_set, NestKey, "g1"), NestName(i))
         /\ (cm[i].gen = "suspended" /\ Exit(i, FALSE)) =>
                /\ Listing(working_set', NestKey, "g1") =
                     SelectSeq(Listing(working_set, NestKey, "g1"),
                               LAMBDA n : n # NestName(i))
                /\ (\A j \in NestInst : ~InBlock(j)') =>
                       working_set' = InitialWorkingSet]_vars

\* The entries of the group of the call of object i, under its identity.
TableOf(ws, a) == Table(ws, KeyOf(a), GroupOf(a))

\* C11: __enter__ on an object that is inside its with block raises a usage
\* error (a RuntimeError) and adds no entry to the object's group.
C11_ReenterRejected ==
    [][\A i \in Inst :
         (InBlock(i) /\ Enter(i)) =>
             /\ IsUsageError(last'.err)
             /\ Len(TableOf(working_set', cm[i].args)) <=
                  Len(TableOf(working_set, cm[i].args))]_vars

\* The arguments were valid when the object was built, whatever has happened
\* to the EntryPoint object among them since.
ValidCall(a) == NormaliseArgs(a, NoDist).err = NoError

\* Nothing stands in the way of an activation of the call a: its identity is
\* prybar's own or absent, and its group holds nothing.
Unhindered(ws, a) ==
    /\ ~ForeignIdentity(ws, KeyOf(a))
    /\ TableOf(ws, a) = <<>>

\* Object i has been through __enter__ and a normal __exit__, and is idle.
Deactivated(i) == cm[i].gen = "closed" /\ ~cm[i].hasargs /\ ~InCall(i)

\* C12: an object that has been activated and deactivated is activated again
\* by __enter__ (or start()) without error, its entry is registered again,
\* and the __exit__ (or stop()) that follows removes it again.
C12_SequentialReuse ==
    [][\A i \in Inst :
         (/\ Deactivated(i) /\ ValidCall(cm[i].args)
          /\ Unhindered(working_set, cm[i].args)
          /\ Enter(i) \/ Start(i)) =>
             /\ last'.err = NoError
             /\ CountFor(working_set', cm[i].args) = 1]_vars

\* C13: decorating a function changes nothing in the registry; every call of
\* the decorated function, the first and each later one, runs without error
\* with the entry registered once, and the entry is gone when the call
\* returns.
C13_DecoratorPerCall ==
    [][\A i \in Inst :
         /\ Decorate(i) => working_set' = working_set
         /\ (/\ cm[i].gen = "created" /\ cm[i].hasargs /\ ~InCall(i)
             /\ ValidCall(cm[i].args)
             /\ Unhindered(working_set, cm[i].args)
             /\ CallWrapped(i)) =>
                /\ last'.err = NoError
                /\ InCall(i)'
                /\ CountFor(working_set', cm[i].args) = 1
         /\ ReturnWrapped(i, FALSE) =>
                CountFor(working_set', cm[i].args) = 0]_vars

\* The most recent call was an __exit__ of object i, never entered, that
\* raised a usage error.
FailedExit(i) ==
    /\ last.op = "__exit__" /\ last.inst = i /\ ~last.exc
    /\ IsUsageError(last.err)
    /\ cm[i].hasargs

\* C14: after an __exit__ without __enter__ has raised its usage error, the
\* same object is activated by __enter__ without error, with its entry
\* registered once.
C14_UsableAfterFailedExit ==
    [][\A i \in Inst :
         (FailedExit(i) /\ ValidCall(cm[i].args) /\ Enter(i)) =>
             /\ last'.err = NoError
             /\ InBlock(i)'
             /\ CountFor(working_set', cm[i].args) = 1]_vars

----------------------------------------------------------------------------
(* Two raw scope strings with one key *)

\* The calls for ep_1 and ep_2 in g1, as a callable and as a declaration
\* string, under the scopes "foo-bar" and "foo_bar".
ScopeCalls ==
    UNION {{ FromCallable(G1, n, None, s), FromText(G1, n, n, s) } :
             n \in {"ep_1", "ep_2"}, s \in {ScopeFooH, ScopeFooU}}

\* Every object has been constructed from one of the calls.
InitScope ==
    /\ working_set = InitialWorkingSet
    /\ cm \in [Inst -> {Manager("created", a, TRUE, NoDist, NoFrame,
                                "none", NoFrame) : a \in ScopeCalls}]
    /\ last = Call("none", 0, FALSE, NoError)

\* with cm: ... entered once per object and left by a normal return.
NextScope ==
    \E i \in Inst :
        \/ cm[i].gen = "created" /\ Enter(i)
        \/ cm[i].gen = "suspended" /\ Exit(i, FALSE)

SpecScope == InitScope /\ [][NextScope]_vars

\* The message of the exception shows the value x.
Shows(err, x) == \E n \in 1..Len(err.shown) : err.shown[n] = x

\* Object j is inside its block under a raw scope string that differs from
\* the one of object i and has the same key.
SameKeyActive(i, j) ==
    /\ j # i
    /\ InBlock(j)
    /\ ScopeOf(cm[j].args) # ScopeOf(cm[i].args)
    /\ KeyOf(cm[j].args) = KeyOf(cm[i].args)

\* C15 as stated: with scope "foo-bar" active, an activation under scope
\* "foo_bar" raises the collision error, and its message shows both raw
\* scope strings.
C15_NormalisedCollision ==
    [][\A i, j \in Inst :
         (/\ EntersBlock(i) /\ SameKeyActive(i, j)
          /\ cm[j].args.scope = ScopeFooH /\ cm[i].args.scope = ScopeFooU) =>
             /\ IsCollisionError(last'.err)
             /\ Shows(last'.err, ScopeFooH) /\ Shows(last'.err, ScopeFooU)]_vars

\* C15: with a scope active, an activation under another raw scope string
\* with the same key never raises the collision error: the two share the one
\* identity at prybar's location.  The activation succeeds, and its entry
\* joins the group table of that identity and carries its key; or it raises
\* the duplicate-name error, whose message shows the requested raw scope
\* and the key, and the registry is as before.
C15_NormalisedShared ==
    [][\A i, j \in Inst :
         (EntersBlock(i) /\ SameKeyActive(i, j)) =>
             /\ ~IsCollisionError(last'.err)
             /\ Get(working_set'.by_key, KeyOf(cm[i].args)).location = OWN
             /\ Len(working_set'.by_key) = Len(working_set.by_key)
             /\ \/ /\ last'.err = NoError
                   /\ InBlock(i)'
                   /\ Len(TableOf(working_set', cm[i].args)) =
                        Len(TableOf(working_set, cm[i].args)) + 1
                   /\ CountFor(working_set', cm[i].args) >= 1
                   /\ UnderOwnIdentity(working_set', cm[i].args)
                \/ /\ IsDuplicateNameError(last'.err)
                   /\ Shows(last'.err, ScopeOf(cm[i].args))
                   /\ Shows(last'.err, KeyOf(cm[i].args))
                   /\ working_set' = working_set]_vars

\* An activation under "foo_bar" has succeeded while "foo-bar" is active.
C15_Witness ==
    /\ last.op = "__enter__" /\ last.err = NoError
    /\ cm[last.inst].args.scope = ScopeFooU
    /\ \E j \in Inst :
         /\ SameKeyActive(last.inst, j)
         /\ cm[j].args.scope = ScopeFooH
         /\ Len(TableOf(working_set, cm[j].args)) = 2

\* C16: with an entry active under one raw scope string, activating an entry
\* point of the same group and name under another raw scope string with the
\* same key raises the duplicate-name error, whose message shows the
\* requested raw scope, and the key when the two differ; the registry is as
\* before.
C16_NormalisedDuplicate ==
    [][\A i, j \in Inst :
         (/\ EntersBlock(i) /\ SameKeyActive(i, j)
          /\ GroupOf(cm[j].args) = GroupOf(cm[i].args)
          /\ EntryOf(cm[j].args).name = EntryOf(cm[i].args).name) =>
             /\ IsDuplicateNameError(last'.err)
             /\ Shows(last'.err, ScopeOf(cm[i].args))
             /\ (ScopeOf(cm[i].args) # KeyOf(cm[i].args)) =>
                    Shows(last'.err, KeyOf(cm[i].args))
             /\ working_set' = working_set]_vars

----------------------------------------------------------------------------
(* Calls with malformed or contradictory arguments *)

IntGroup(g) == [t |-> "int", v |-> g]

\* The calls of test_invalid_arguments and the cases the checks of lines
\* 41-78 tell apart, and two valid calls.
ArgCalls ==
    { \* group is 42
      Args(IntGroup("42"), "callable", EntryPoint("ep_1", TestModule, <<>>, NoDist),
           <<>>, None, None, NoAttr, NoScope),
      \* entrypoint omitted: no name and no module, a name alone, a module alone
      Args(G1, "none", NoObject, <<>>, None, None, NoAttr, NoScope),
      Args(G1, "none", NoObject, <<>>, "ep_1", None, NoAttr, NoScope),
      Args(G1, "none", NoObject, <<>>, None, TestModule, NoAttr, NoScope),
      \* a declaration string with name=, module= or attribute=
      Args(G1, "str", NoObject, <<"ep_1", "=", TestModule, ":", "ep_1">>,
           "abc", None, NoAttr, NoScope),
      Args(G1, "str", NoObject, <<"ep_1", "=", TestModule, ":", "ep_1">>,
           None, "abc", NoAttr, NoScope),
      Args(G1, "str", NoObject, <<"ep_1", "=", TestModule, ":", "ep_1">>,
           None, None, StrAttr("abc"), NoScope),
      \* an EntryPoint object with name=
      Args(G1, "EntryPoint", EntryPoint("ep_1", TestModule, <<"ep_1">>, NoDist),
           <<>>, "abc", None, NoAttr, NoScope),
      \* an EntryPoint object with a dist attached
      Args(G1, "EntryPoint",
           EntryPoint("ep_1", TestModule, <<"ep_1">>, PytestKey),
           <<>>, None, None, NoAttr, NoScope),
      \* a callable with module= or attribute=
      Args(G1, "callable", EntryPoint("ep_1", TestModule, <<>>, NoDist),
           <<>>, None, "abc", NoAttr, NoScope),
      Args(G1, "callable", EntryPoint("ep_1", TestModule, <<>>, NoDist),
           <<>>, None, None, StrAttr("abc"), NoScope),
      \* valid calls
      FromCallable(G1, "ep_1", None, NoScope),
      FromFields(G1, "ep_2", StrAttr("ep_2"), NoScope) }

\* Objects are constructed, entered and left by a normal return.
NextArgs ==
    \E i \in Inst :
        \/ \E a \in ArgCalls : Construct(i, a)
        \/ cm[i].gen = "created" /\ Enter(i)
        \/ cm[i].gen = "suspended" /\ Exit(i, FALSE)

SpecArgs == Init /\ [][NextArgs]_vars

\* The exception the checks of lines 41-78 raise for the call a.
ArgumentError(a) == NormaliseArgs(a, a.obj.dist).err

\* C17: a call of dynamic_entrypoint with malformed or contradictory
\* arguments raises the error of the argument checks itself, and returns no
\* object to enter or start.
C17_ErrorAtConstruction ==
    [][\A i \in Inst : \A a \in ArgCalls :
         (Construct(i, a) /\ ArgumentError(a) # NoError) =>
             /\ last'.err = ArgumentError(a)
             /\ cm'[i].gen = "absent"]_vars

\* Object i alone is inside its block.
AloneInBlock(i) == InBlock(i) /\ \A j \in NestInst \ {i} : ~InBlock(j)

\* C18: whichever of the three input shapes describes the entry point, a
\* callable, a declaration string or explicit fields, its activation leaves
\* the same group table: one entry, under the entry point's name, with that
\* name, the module and the attribute path.
C18_ShapesAgree ==
    \A i \in NestInst :
        (AloneInBlock(i) /\ cm[i].args.kind \in {"callable", "str", "none"}) =>
            Table(working_set, NestKey, "g1") =
                << [k |-> NestName(i),
                    v |-> EntryPoint(NestName(i), TestModule,
                                     <<NestName(i)>>, NestKey)] >>

\* Every entry of every group table of the identity d is stored under its
\* own name.
KeyedByName(d) ==
    \A g \in 1..Len(d.ep_map) : \A e \in 1..Len(d.ep_map[g].v) :
        d.ep_map[g].v[e].k = d.ep_map[g].v[e].v.name

\* dist.get_entry_info(group, name) of the call's identity finds an entry.
Lookup(ws, a) == Has(TableOf(ws, a), EntryOf(a).name)

\* C19: every entry of every group table is stored under the key equal to
\* its own name, and while an object is active a lookup by its group and
\* name finds its entry.
C19_KeyedByName ==
    /\ \A n \in 1..Len(working_set.by_key) : KeyedByName(working_set.by_key[n].v)
    /\ \A i \in Inst :
         (InBlock(i) \/ InCall(i)) => Lookup(working_set, cm[i].args)

\* The errors of an activation or a deactivation: duplicate name, collision,
\* usage.
IsContractError(err) ==
    IsDuplicateNameError(err) \/ IsCollisionError(err) \/ IsUsageError(err)

\* C20: an __enter__, __exit__, start() or stop() that raises a duplicate
\* name, collision or usage error leaves the registry as it was.
C20_FailureAtomic ==
    [][\A i \in Inst :
         (/\ Enter(i) \/ Exit(i, FALSE) \/ Start(i) \/ Stop(i)
          /\ IsContractError(last'.err)) =>
             working_set' = working_set]_vars

====
